---------------------------- MODULE Spec2Model ----------------------------
(***************************************************************************)
(* A model of the NSGA-II keyboard layout optimizer of                     *)
(* src/pareto_optimizer.py: the bigram models, the metric evaluator, the   *)
(* random initialisation and swap mutation of layouts, the fast            *)
(* non-dominated sort, the crowding distance and the generational loop of  *)
(* KeyboardOptimizer.optimize.                                             *)
(*                                                                         *)
(* Numbers: the program computes percentages, scores and crowding          *)
(* distances in binary floating point.  The model computes them as exact   *)
(* non-negative rationals [n, d] in lowest terms; float('inf') is the      *)
(* ratio 1/0.  The accumulator of lateral stretches, which the program     *)
(* grows by count / 2, is kept doubled (lat_str2) so that it stays an      *)
(* integer.                                                                *)
(***************************************************************************)
EXTENDS Integers, Sequences, FiniteSets, TLC

(***************************************************************************)
(* Bounds of the model.                                                    *)
(***************************************************************************)
\* optimize is called with population_size in 0 .. MaxPopulation
MaxPopulation == 2
\* optimize is called with generations in 0 .. MaxGenerations
MaxGenerations == 2

(***************************************************************************)
(* Exact rational arithmetic standing for the program's floats.            *)
(***************************************************************************)
RECURSIVE GCD(_, _)
GCD(a, b) == IF b = 0 THEN a ELSE GCD(b, a % b)

\* n / d for n >= 0 and d > 0, in lowest terms
Ratio(n, d) ==
    IF n = 0 THEN [n |-> 0, d |-> 1]
    ELSE LET g == GCD(n, d) IN [n |-> n \div g, d |-> d \div g]

\* float('inf')
Infinity == [n |-> 1, d |-> 0]

IsInfinite(x) == x.d = 0

RatLE(x, y) == x.n * y.d <= y.n * x.d

RatLT(x, y) == x.n * y.d < y.n * x.d

RatAdd(x, y) ==
    IF x.d = 0 \/ y.d = 0 THEN Infinity
    ELSE Ratio(x.n * y.d + y.n * x.d, x.d * y.d)

\* x - y for finite x >= y
RatSub(x, y) == Ratio(x.n * y.d - y.n * x.d, x.d * y.d)

\* x / y for finite x and finite y > 0
RatDiv(x, y) == Ratio(x.n * y.d, x.d * y.n)

\* (a / b) * x for finite x
RatScale(a, b, x) == Ratio(a * x.n, b * x.d)

(***************************************************************************)
(* KeyboardOptimizer.__init__: the fixed tables.                           *)
(***************************************************************************)
Position(r, c, f) == [row |-> r, col |-> c, finger |-> f]

fixed_letters == {"n", "r", "s", "t", "h", "e", "a", "i", "u", "o", "y"}

base_layout ==
    ("n" :> Position(1, 1, 1)) @@ ("r" :> Position(1, 2, 2)) @@
    ("s" :> Position(1, 3, 3)) @@ ("t" :> Position(1, 4, 4)) @@
    ("h" :> Position(1, 7, 7)) @@ ("e" :> Position(1, 8, 8)) @@
    ("a" :> Position(1, 9, 9)) @@ ("i" :> Position(1, 10, 10)) @@
    ("u" :> Position(0, 8, 8)) @@ ("o" :> Position(0, 9, 9)) @@
    ("y" :> Position(0, 10, 10)) @@ (" " :> Position(3, 6, 6))

moveable_positions ==
    << Position(0, 1, 1),  Position(0, 2, 2),  Position(0, 3, 3),
       Position(0, 4, 4),  Position(0, 5, 4),  Position(0, 6, 7),
       Position(0, 7, 7),  Position(0, 11, 10), Position(1, 0, 1),
       Position(1, 5, 4),  Position(1, 6, 7),  Position(1, 11, 10),
       Position(2, 0, 1),  Position(2, 1, 1),  Position(2, 2, 2),
       Position(2, 3, 3),  Position(2, 4, 4),  Position(2, 5, 4),
       Position(2, 6, 7),  Position(2, 7, 7),  Position(2, 8, 8),
       Position(2, 9, 9),  Position(2, 10, 10), Position(2, 11, 10) >>

moveable_letters ==
    << "q", "l", "c", "m", "k", "'", "f", "ö", "-", "w", "p", "ä",
       "\\", "j", "x", "z", "g", "v", "b", "d", ";", ",", ".", "/" >>

\* the anchors: the keys of base_layout (the fixed letters and the space)
Anchors == DOMAIN base_layout

Range(s) == {s[i] : i \in DOMAIN s}

(***************************************************************************)
(* The inputs of a run.  A corpus is the dict a word list file holds, as   *)
(* the sequence of its items; a word is the sequence of its characters.    *)
(***************************************************************************)
Word(w, c) == [word |-> w, count |-> c]

\* word_list.json: empty, the corpus {"ab": 1}, or two words
EnglishCorpora ==
    { << >>,
      << Word(<<"a", "b">>, 1) >>,
      << Word(<<"b", "a", "d">>, 2), Word(<<"h", "u", "b", "b", "u", "b">>, 1) >> }

\* words-finnish.json: empty or one word
FinnishCorpora ==
    { << >>,
      << Word(<<"u", "b">>, 1) >> }

\* The places (1-based) of moveable_letters and moveable_positions that the
\* modelled outcomes of random.shuffle and random.sample move: b, d and ","
\* and the slots (2,6), (2,7) and (2,9).  Every other place keeps its order.
\* random.sample draws any two of these places.
DrawnIdx == {19, 20, 22}

\* The outcomes of random.shuffle that are modelled: the three rotations of
\* the drawn places.  The three other arrangements of b, d and "," come about
\* by mutation.
DrawnShuffles ==
    { (19 :> 19) @@ (20 :> 20) @@ (22 :> 22),
      (19 :> 20) @@ (20 :> 22) @@ (22 :> 19),
      (19 :> 22) @@ (20 :> 19) @@ (22 :> 20) }

\* the list after random.shuffle(lst) with outcome p
Shuffled(lst, p) == [i \in 1..Len(lst) |-> IF i \in DrawnIdx THEN lst[p[i]] ELSE lst[i]]

(***************************************************************************)
(* KeyboardOptimizer.calculate_bigrams_from_words                          *)
(***************************************************************************)
\* windows that set the weight of a bigram instead of adding to it
RECURSIVE AddWindowsOverwriting(_, _, _, _)
AddWindowsOverwriting(bigrams, word_with_spaces, count, i) ==
    IF i > Len(word_with_spaces) - 1 THEN bigrams
    ELSE LET bigram == SubSeq(word_with_spaces, i, i + 1)
             known  == IF bigram \notin DOMAIN bigrams
                       THEN (bigram :> 0) @@ bigrams
                       ELSE bigrams
         IN  AddWindowsOverwriting([known EXCEPT ![bigram] = count],
                                   word_with_spaces, count, i + 1)

RECURSIVE AddWindows(_, _, _, _)
AddWindows(bigrams, word_with_spaces, count, i) ==
    IF i > Len(word_with_spaces) - 1 THEN bigrams
    ELSE LET bigram == SubSeq(word_with_spaces, i, i + 1)
             known  == IF bigram \notin DOMAIN bigrams
                       THEN (bigram :> 0) @@ bigrams
                       ELSE bigrams
         IN  AddWindows([known EXCEPT ![bigram] = @ + count],
                        word_with_spaces, count, i + 1)

\* a loop over the words that leaves the space out of total_length
RECURSIVE BigramsOfWordsWithoutSpace(_, _, _, _)
BigramsOfWordsWithoutSpace(words, k, bigrams, total_length) ==
    IF k > Len(words)
    THEN [bigrams |-> bigrams, total_length |-> total_length]
    ELSE LET word  == words[k].word
             count == words[k].count
             word_with_spaces == <<" ">> \o word \o <<" ">>
         IN  BigramsOfWordsWithoutSpace(words, k + 1,
                            AddWindows(bigrams, word_with_spaces, count, 1),
                            total_length + Len(word) * count)

RECURSIVE BigramsOfWords(_, _, _, _)
BigramsOfWords(words, k, bigrams, total_length) ==
    IF k > Len(words)
    THEN [bigrams |-> bigrams, total_length |-> total_length]
    ELSE LET word  == words[k].word
             count == words[k].count
             word_with_spaces == <<" ">> \o word \o <<" ">>
         IN  BigramsOfWords(words, k + 1,
                            AddWindows(bigrams, word_with_spaces, count, 1),
                            total_length + (Len(word) + 1) * count)

calculate_bigrams_from_words(words) ==
    BigramsOfWords(words, 1, [b \in {} |-> 0], 0)

(***************************************************************************)
(* KeyboardOptimizer.create_random_layout                                  *)
(***************************************************************************)
RECURSIVE ZipAssign(_, _, _, _)
ZipAssign(layout, letters, positions, i) ==
    IF i > Len(letters) \/ i > Len(positions) THEN layout
    ELSE ZipAssign((letters[i] :> positions[i]) @@ layout, letters, positions, i + 1)

\* p and q are the outcomes of the two shuffles
create_random_layout(p, q) ==
    ZipAssign(base_layout, Shuffled(moveable_letters, p),
              Shuffled(moveable_positions, q), 1)

\* the objects of the call as it leaves them: self.base_layout and
\* self.moveable_positions, and the two it writes, layout (the deepcopy of
\* self.base_layout) and shuffled_positions (the slice of
\* self.moveable_positions)
CreateRandomLayoutObjects(self, p, q) ==
    LET copied == [base_layout |-> self.base_layout,
                   moveable_positions |-> self.moveable_positions,
                   layout |-> self.base_layout,
                   shuffled_positions |-> self.moveable_positions]
        shuffled == [copied EXCEPT !.shuffled_positions = Shuffled(@, q)]
    IN  [shuffled EXCEPT !.layout =
            ZipAssign(@, Shuffled(moveable_letters, p),
                      shuffled.shuffled_positions, 1)]

(***************************************************************************)
(* KeyboardOptimizer.calculate_metrics                                     *)
(***************************************************************************)
Abs(x) == IF x < 0 THEN -x ELSE x

NoContribution == [sfb |-> 0, scissors |-> 0, lat_str2 |-> 0, wide_scissors |-> 0]

\* a same-hand analysis that adds the full count for the half-stretch pair too
HandContributionHalfAsFull(row1, col1, row2, col2, count, fullA, fullB, halfA, halfB) ==
    IF row1 <= 2 /\ row2 <= 2
    THEN [sfb |-> 0,
          scissors |-> IF Abs(row1 - row2) = 2 /\ Abs(col1 - col2) = 1
                       THEN count ELSE 0,
          wide_scissors |-> IF Abs(row1 - row2) = 2 /\ Abs(col1 - col2) # 1
                            THEN count ELSE 0,
          lat_str2 |->
              (IF (col1 = fullA /\ col2 = fullB) \/ (col1 = fullB /\ col2 = fullA)
               THEN 2 * count ELSE 0)
            + (IF (col1 = halfA /\ col2 = halfB) \/ (col1 = halfB /\ col2 = halfA)
               THEN 2 * count ELSE 0)]
    ELSE NoContribution

\* a same-hand analysis that takes every bigram two rows apart for a scissors
HandContributionAnyColumns(row1, col1, row2, col2, count, fullA, fullB, halfA, halfB) ==
    IF row1 <= 2 /\ row2 <= 2
    THEN [sfb |-> 0,
          scissors |-> IF Abs(row1 - row2) = 2 THEN count ELSE 0,
          wide_scissors |-> 0,
          lat_str2 |->
              (IF (col1 = fullA /\ col2 = fullB) \/ (col1 = fullB /\ col2 = fullA)
               THEN 2 * count ELSE 0)
            + (IF (col1 = halfA /\ col2 = halfB) \/ (col1 = halfB /\ col2 = halfA)
               THEN count ELSE 0)]
    ELSE NoContribution

\* the same-hand analysis of one hand; fullA/fullB and halfA/halfB are the
\* column pairs of the full and the half lateral stretch of that hand
HandContribution(row1, col1, row2, col2, count, fullA, fullB, halfA, halfB) ==
    IF row1 <= 2 /\ row2 <= 2
    THEN [sfb |-> 0,
          scissors |-> IF Abs(row1 - row2) = 2 /\ Abs(col1 - col2) = 1
                       THEN count ELSE 0,
          wide_scissors |-> IF Abs(row1 - row2) = 2 /\ Abs(col1 - col2) # 1
                            THEN count ELSE 0,
          lat_str2 |->
              (IF (col1 = fullA /\ col2 = fullB) \/ (col1 = fullB /\ col2 = fullA)
               THEN 2 * count ELSE 0)
            + (IF (col1 = halfA /\ col2 = halfB) \/ (col1 = halfB /\ col2 = halfA)
               THEN count ELSE 0)]
    ELSE NoContribution

\* the same-finger test without its test that the characters differ
BigramContributionDoubled(layout, bigram, count) ==
    IF Len(bigram) # 2 THEN NoContribution
    ELSE
    LET char1 == bigram[1]
        char2 == bigram[2]
    IN  IF char1 \notin DOMAIN layout \/ char2 \notin DOMAIN layout
        THEN NoContribution
        ELSE
        LET pos1 == layout[char1]
            pos2 == layout[char2]
        IN  IF pos1.finger = pos2.finger
            THEN [NoContribution EXCEPT !.sfb = count]
            ELSE IF pos1.col <= 5 /\ pos2.col <= 5
                 THEN HandContribution(pos1.row, pos1.col, pos2.row, pos2.col,
                                       count, 5, 3, 5, 2)
                 ELSE IF pos1.col >= 6 /\ pos2.col >= 6
                 THEN HandContribution(pos1.row, pos1.col, pos2.row, pos2.col,
                                       count, 6, 8, 6, 9)
                 ELSE NoContribution

\* a skip test that looks at the first character only: an absent second
\* character is taken to sit on the key of the first
BigramContributionFirstCharOnly(layout, bigram, count) ==
    IF Len(bigram) # 2 THEN NoContribution
    ELSE
    LET char1 == bigram[1]
        char2 == bigram[2]
    IN  IF char1 \notin DOMAIN layout
        THEN NoContribution
        ELSE
        LET pos1 == layout[char1]
            pos2 == IF char2 \in DOMAIN layout THEN layout[char2] ELSE pos1
        IN  IF pos1.finger = pos2.finger /\ char1 # char2
            THEN [NoContribution EXCEPT !.sfb = count]
            ELSE IF pos1.finger # pos2.finger
            THEN IF pos1.col <= 5 /\ pos2.col <= 5
                 THEN HandContribution(pos1.row, pos1.col, pos2.row, pos2.col,
                                       count, 5, 3, 5, 2)
                 ELSE IF pos1.col >= 6 /\ pos2.col >= 6
                 THEN HandContribution(pos1.row, pos1.col, pos2.row, pos2.col,
                                       count, 6, 8, 6, 9)
                 ELSE NoContribution
            ELSE NoContribution

\* what one item (bigram, count) of the table adds to the four counters
BigramContribution(layout, bigram, count) ==
    IF Len(bigram) # 2 THEN NoContribution
    ELSE
    LET char1 == bigram[1]
        char2 == bigram[2]
    IN  IF char1 \notin DOMAIN layout \/ char2 \notin DOMAIN layout
        THEN NoContribution
        ELSE
        LET pos1 == layout[char1]
            pos2 == layout[char2]
            row1 == pos1.row
            col1 == pos1.col
            finger1 == pos1.finger
            row2 == pos2.row
            col2 == pos2.col
            finger2 == pos2.finger
        IN  IF finger1 = finger2 /\ char1 # char2
            THEN [NoContribution EXCEPT !.sfb = count]
            ELSE IF finger1 # finger2
            THEN IF col1 <= 5 /\ col2 <= 5
                 THEN HandContribution(row1, col1, row2, col2, count, 5, 3, 5, 2)
                 ELSE IF col1 >= 6 /\ col2 >= 6
                 THEN HandContribution(row1, col1, row2, col2, count, 6, 8, 6, 9)
                 ELSE NoContribution
            ELSE NoContribution

RECURSIVE Accumulate(_, _, _, _)
Accumulate(layout, bigrams, todo, acc) ==
    IF todo = {} THEN acc
    ELSE LET bigram == CHOOSE b \in todo : TRUE
             c == BigramContribution(layout, bigram, bigrams[bigram])
         IN  Accumulate(layout, bigrams, todo \ {bigram},
                        [sfb |-> acc.sfb + c.sfb,
                         scissors |-> acc.scissors + c.scissors,
                         lat_str2 |-> acc.lat_str2 + c.lat_str2,
                         wide_scissors |-> acc.wide_scissors + c.wide_scissors])

\* the counters after the loop over bigrams.items()
Counters(layout, bigrams) ==
    Accumulate(layout, bigrams, DOMAIN bigrams, NoContribution)

\* metrics whose skip-bigram rate is taken from the wide scissors
CalculateMetricsSkipFromWide(layout, bigrams, total_length) ==
    LET acc == Counters(layout, bigrams)
    IN  [sfb |-> Ratio(acc.sfb * 100, total_length),
         scissors |-> Ratio(acc.scissors * 100, total_length),
         lat_stretch |-> Ratio(acc.lat_str2 * 100, 2 * total_length),
         skip_bigrams |-> Ratio(acc.wide_scissors * 100, total_length)]

\* total_length > 0; the program raises ZeroDivisionError otherwise
calculate_metrics(layout, bigrams, total_length) ==
    LET acc == Counters(layout, bigrams)
        sfb_pct      == Ratio(acc.sfb * 100, total_length)
        scissors_pct == Ratio(acc.scissors * 100, total_length)
        lat_str_pct  == Ratio(acc.lat_str2 * 100, 2 * total_length)
        skip_bigrams_pct == scissors_pct
    IN  [sfb |-> sfb_pct, scissors |-> scissors_pct,
         lat_stretch |-> lat_str_pct, skip_bigrams |-> skip_bigrams_pct]

(***************************************************************************)
(* KeyboardOptimizer.evaluate_layout: the Layout object of a layout        *)
(***************************************************************************)
Sum3(m) == RatAdd(RatAdd(m.sfb, m.scissors), m.lat_stretch)

\* a score of the same-finger rates alone
WeightedScoreOfSfbAlone(english_metrics, finnish_metrics) ==
    RatAdd(RatScale(8, 10, english_metrics.sfb),
           RatScale(2, 10, finnish_metrics.sfb))

WeightedScore(english_metrics, finnish_metrics) ==
    RatAdd(RatScale(8, 10, Sum3(english_metrics)),
           RatScale(2, 10, Sum3(finnish_metrics)))

evaluate_layout(layout_positions, e_bigrams, e_total, f_bigrams, f_total) ==
    LET english_metrics == calculate_metrics(layout_positions, e_bigrams, e_total)
        finnish_metrics == calculate_metrics(layout_positions, f_bigrams, f_total)
    IN  [positions |-> layout_positions,
         english_metrics |-> english_metrics,
         finnish_metrics |-> finnish_metrics,
         weighted_score |-> WeightedScore(english_metrics, finnish_metrics),
         rank |-> 0,
         crowding_distance |-> Ratio(0, 1)]

(***************************************************************************)
(* KeyboardOptimizer.mutate_layout                                         *)
(***************************************************************************)
\* every key of the layout, anchors too, in sorted order
AllLayoutChars(positions) ==
    SelectSeq(<< " ", "'", ",", "-", ".", "/", ";", "\\", "a", "b", "c", "d",
                 "e", "f", "g", "h", "i", "j", "k", "l", "m", "n", "o", "p",
                 "q", "r", "s", "t", "u", "v", "w", "x", "y", "z", "ä", "ö" >>,
              LAMBDA char : char \in DOMAIN positions)

\* the moveable letters the layout holds, in the order of moveable_letters
MoveableChars(positions) ==
    SelectSeq(moveable_letters, LAMBDA char : char \in DOMAIN positions)

\* an exchange that forgets its second assignment
SwappedOneWay(positions, char1, char2) ==
    [positions EXCEPT ![char1] = positions[char2]]

\* positions with the values of char1 and char2 exchanged
Swapped(positions, char1, char2) ==
    [positions EXCEPT ![char1] = positions[char2], ![char2] = positions[char1]]

\* a swap that exchanges a lone moveable letter with the anchor n
MutatedPositionsWithAnchor(positions, idx1, idx2) ==
    LET moveable_chars == MoveableChars(positions)
    IN  IF Len(moveable_chars) >= 2
        THEN Swapped(positions, moveable_chars[idx1], moveable_chars[idx2])
        ELSE IF Len(moveable_chars) >= 1
        THEN Swapped(positions, moveable_chars[1], "n")
        ELSE positions

\* idx1 and idx2 are the outcome of random.sample (1-based here); they are
\* read only when the layout holds two moveable letters or more
MutatedPositions(positions, idx1, idx2) ==
    LET moveable_chars == MoveableChars(positions)
    IN  IF Len(moveable_chars) >= 2
        THEN Swapped(positions, moveable_chars[idx1], moveable_chars[idx2])
        ELSE positions

\* the swap made in layout.positions itself, without the deepcopy
MutateLayoutObjectsShared(layout, idx1, idx2) ==
    LET swapped == MutatedPositions(layout.positions, idx1, idx2)
    IN  [positions |-> swapped, new_positions |-> swapped]

\* the two dicts of the call as it leaves them: layout.positions, and
\* new_positions, its deepcopy, which the swap writes
MutateLayoutObjects(layout, idx1, idx2) ==
    LET copied == [positions |-> layout.positions,
                   new_positions |-> layout.positions]
    IN  [copied EXCEPT !.new_positions = MutatedPositions(@, idx1, idx2)]

\* a child scored with the two language models exchanged
MutateWithModelsExchanged(layout, idx1, idx2, e_bigrams, e_total, f_bigrams, f_total) ==
    evaluate_layout(MutatedPositions(layout.positions, idx1, idx2),
                    f_bigrams, f_total, e_bigrams, e_total)

\* a child that keeps the scores of the layout before the swap
MutateScoredBeforeSwap(layout, idx1, idx2, e_bigrams, e_total, f_bigrams, f_total) ==
    [evaluate_layout(layout.positions, e_bigrams, e_total, f_bigrams, f_total)
        EXCEPT !.positions = MutatedPositions(layout.positions, idx1, idx2)]

mutate_layout(layout, idx1, idx2, e_bigrams, e_total, f_bigrams, f_total) ==
    evaluate_layout(MutatedPositions(layout.positions, idx1, idx2),
                    e_bigrams, e_total, f_bigrams, f_total)

(***************************************************************************)
(* Layout.dominates                                                        *)
(***************************************************************************)
Objectives(l) ==
    << l.english_metrics.sfb, l.english_metrics.scissors,
       l.english_metrics.lat_stretch, l.english_metrics.skip_bigrams,
       l.finnish_metrics.sfb, l.finnish_metrics.scissors,
       l.finnish_metrics.lat_stretch, l.finnish_metrics.skip_bigrams >>

\* a comparison that leaves out the strictly-better test
DominatesWeakly(self, other) ==
    LET self_obj  == Objectives(self)
        other_obj == Objectives(other)
    IN  \A k \in 1..8 : RatLE(self_obj[k], other_obj[k])

dominates(self, other) ==
    LET self_obj  == Objectives(self)
        other_obj == Objectives(other)
        better_or_equal == \A k \in 1..8 : RatLE(self_obj[k], other_obj[k])
        strictly_better == \E k \in 1..8 : RatLT(self_obj[k], other_obj[k])
    IN  better_or_equal /\ strictly_better

(***************************************************************************)
(* KeyboardOptimizer.fast_non_dominated_sort.  A population is a sequence  *)
(* of Layout objects; a front is the sequence of the places (1-based) its  *)
(* members have in the population.                                         *)
(***************************************************************************)
Indices(population) == [j \in 1..Len(population) |-> j]

\* an inner loop that starts after place i
DominatedSolutionsLater(population, i) ==
    SelectSeq(Indices(population),
              LAMBDA j : j > i /\ dominates(population[i], population[j]))

\* layout_i.dominated_solutions after the first loop
DominatedSolutions(population, i) ==
    SelectSeq(Indices(population),
              LAMBDA j : dominates(population[i], population[j]))

\* an inner loop that stops before place i
DominationCountEarlier(population, i) ==
    Cardinality({j \in 1..(i - 1) :
                    /\ ~ dominates(population[i], population[j])
                    /\ dominates(population[j], population[i])})

\* layout_i.domination_count after the first loop
DominationCount(population, i) ==
    Cardinality({j \in 1..Len(population) :
                    /\ ~ dominates(population[i], population[j])
                    /\ dominates(population[j], population[i])})

\* the two inner loops of the while loop, over fronts[front_index]: its
\* members from place m on, the dominated solutions of member m from place k on
RECURSIVE PeelFront(_, _, _, _, _, _, _, _)
PeelFront(dominated_solutions, front, front_index, m, k, count, rank, next_front) ==
    IF m > Len(front)
    THEN [count |-> count, rank |-> rank, next_front |-> next_front]
    ELSE
    LET dominated == dominated_solutions[front[m]]
    IN  IF k > Len(dominated)
        THEN PeelFront(dominated_solutions, front, front_index, m + 1, 1,
                       count, rank, next_front)
        ELSE
        LET j == dominated[k]
            decremented == [count EXCEPT ![j] = @ - 1]
        IN  IF decremented[j] = 0
            THEN PeelFront(dominated_solutions, front, front_index, m, k + 1,
                           decremented,
                           [rank EXCEPT ![j] = front_index + 1],
                           Append(next_front, j))
            ELSE PeelFront(dominated_solutions, front, front_index, m, k + 1,
                           decremented, rank, next_front)

\* the while loop with the last, empty front returned too
RECURSIVE PeelFrontsKeepingLastFront(_, _, _, _, _)
PeelFrontsKeepingLastFront(dominated_solutions, fronts, front_index, count, rank) ==
    IF Len(fronts[front_index + 1]) > 0
    THEN LET r == PeelFront(dominated_solutions, fronts[front_index + 1],
                            front_index, 1, 1, count, rank, << >>)
         IN  PeelFrontsKeepingLastFront(dominated_solutions,
                                        Append(fronts, r.next_front),
                                        front_index + 1, r.count, r.rank)
    ELSE [fronts |-> fronts, rank |-> rank]

\* the while loop; fronts[front_index + 1] here is fronts[front_index] there
RECURSIVE PeelFronts(_, _, _, _, _)
PeelFronts(dominated_solutions, fronts, front_index, count, rank) ==
    IF Len(fronts[front_index + 1]) > 0
    THEN LET r == PeelFront(dominated_solutions, fronts[front_index + 1],
                            front_index, 1, 1, count, rank, << >>)
         IN  PeelFronts(dominated_solutions, Append(fronts, r.next_front),
                        front_index + 1, r.count, r.rank)
    ELSE [fronts |-> SubSeq(fronts, 1, Len(fronts) - 1), rank |-> rank]

\* the fronts returned and the population with the ranks the sort has set
fast_non_dominated_sort(population) ==
    LET dominated_solutions ==
            [i \in 1..Len(population) |-> DominatedSolutions(population, i)]
        count == [j \in 1..Len(population) |-> DominationCount(population, j)]
        rank  == [j \in 1..Len(population) |->
                     IF count[j] = 0 THEN 0 ELSE population[j].rank]
        first == SelectSeq(Indices(population), LAMBDA i : count[i] = 0)
        r     == PeelFronts(dominated_solutions, << first >>, 0, count, rank)
    IN  [fronts |-> r.fronts,
         population |-> [j \in 1..Len(population) |->
                            [population[j] EXCEPT !.rank = r.rank[j]]]]

(***************************************************************************)
(* list.sort(key=..., reverse=...): a stable sort of a sequence of places  *)
(* by key[place], built by insertion.                                      *)
(***************************************************************************)
\* x goes after every element that may stay before it
InsertSorted(sorted, x, key, reverse) ==
    LET before == Cardinality({m \in 1..Len(sorted) :
                      IF reverse THEN RatLE(key[x], key[sorted[m]])
                                 ELSE RatLE(key[sorted[m]], key[x])})
    IN  SubSeq(sorted, 1, before) \o << x >> \o SubSeq(sorted, before + 1, Len(sorted))

RECURSIVE SortFrom(_, _, _, _, _)
SortFrom(lst, i, sorted, key, reverse) ==
    IF i > Len(lst) THEN sorted
    ELSE SortFrom(lst, i + 1, InsertSorted(sorted, lst[i], key, reverse), key, reverse)

StableSort(lst, key, reverse) == SortFrom(lst, 1, << >>, key, reverse)

(***************************************************************************)
(* KeyboardOptimizer.calculate_crowding_distance                           *)
(***************************************************************************)
\* a pass that starts by setting the distances of the front to 0 again
CrowdObjectiveFromZero(population, front, k) ==
    LET key    == [j \in 1..Len(population) |-> Objectives(population[j])[k]]
        sorted == StableSort(front, key, FALSE)
        n      == Len(sorted)
        obj_values == [i \in 1..n |-> key[sorted[i]]]
        max == CHOOSE v \in Range(obj_values) :
                   \A w \in Range(obj_values) : RatLE(w, v)
        min == CHOOSE v \in Range(obj_values) :
                   \A w \in Range(obj_values) : RatLE(v, w)
        bounded == [j \in 1..Len(population) |->
                       IF j = sorted[1] \/ j = sorted[n]
                       THEN [population[j] EXCEPT !.crowding_distance = Infinity]
                       ELSE IF j \in Range(front)
                       THEN [population[j] EXCEPT !.crowding_distance = Ratio(0, 1)]
                       ELSE population[j]]
        Place(j) == CHOOSE i \in 1..n : sorted[i] = j
        distance(i) == RatDiv(RatSub(obj_values[i + 1], obj_values[i - 1]),
                              RatSub(max, min))
    IN  [front |-> sorted,
         population |->
            IF RatLT(min, max)
            THEN [j \in 1..Len(population) |->
                    IF \E i \in 2..(n - 1) : sorted[i] = j
                    THEN [bounded[j] EXCEPT !.crowding_distance =
                             RatAdd(@, distance(Place(j)))]
                    ELSE bounded[j]]
            ELSE bounded]

\* the pass with the range tested before the boundary points are set
CrowdObjectiveSkippingZeroRange(population, front, k) ==
    LET key    == [j \in 1..Len(population) |-> Objectives(population[j])[k]]
        sorted == StableSort(front, key, FALSE)
        n      == Len(sorted)
        obj_values == [i \in 1..n |-> key[sorted[i]]]
        max == CHOOSE v \in Range(obj_values) :
                   \A w \in Range(obj_values) : RatLE(w, v)
        min == CHOOSE v \in Range(obj_values) :
                   \A w \in Range(obj_values) : RatLE(v, w)
        bounded == [j \in 1..Len(population) |->
                       IF j = sorted[1] \/ j = sorted[n]
                       THEN [population[j] EXCEPT !.crowding_distance = Infinity]
                       ELSE population[j]]
        Place(j) == CHOOSE i \in 1..n : sorted[i] = j
        distance(i) == RatDiv(RatSub(obj_values[i + 1], obj_values[i - 1]),
                              RatSub(max, min))
    IN  [front |-> sorted,
         population |->
            IF RatLT(min, max)
            THEN [j \in 1..Len(population) |->
                    IF \E i \in 2..(n - 1) : sorted[i] = j
                    THEN [bounded[j] EXCEPT !.crowding_distance =
                             RatAdd(@, distance(Place(j)))]
                    ELSE bounded[j]]
            ELSE population]

\* one pass of the loop over the objectives, for objective k
CrowdObjective(population, front, k) ==
    LET key    == [j \in 1..Len(population) |-> Objectives(population[j])[k]]
        sorted == StableSort(front, key, FALSE)
        n      == Len(sorted)
        obj_values == [i \in 1..n |-> key[sorted[i]]]
        max == CHOOSE v \in Range(obj_values) :
                   \A w \in Range(obj_values) : RatLE(w, v)
        min == CHOOSE v \in Range(obj_values) :
                   \A w \in Range(obj_values) : RatLE(v, w)
        bounded == [j \in 1..Len(population) |->
                       IF j = sorted[1] \/ j = sorted[n]
                       THEN [population[j] EXCEPT !.crowding_distance = Infinity]
                       ELSE population[j]]
        Place(j) == CHOOSE i \in 1..n : sorted[i] = j
        distance(i) == RatDiv(RatSub(obj_values[i + 1], obj_values[i - 1]),
                              RatSub(max, min))
    IN  [front |-> sorted,
         population |->
            IF RatLT(min, max)
            THEN [j \in 1..Len(population) |->
                    IF \E i \in 2..(n - 1) : sorted[i] = j
                    THEN [bounded[j] EXCEPT !.crowding_distance =
                             RatAdd(@, distance(Place(j)))]
                    ELSE bounded[j]]
            ELSE bounded]

RECURSIVE CrowdObjectives(_, _, _)
CrowdObjectives(population, front, k) ==
    IF k > 8 THEN [front |-> front, population |-> population]
    ELSE LET r == CrowdObjective(population, front, k)
         IN  CrowdObjectives(r.population, r.front, k + 1)

\* the front as the call leaves it (it is sorted in place) and the population
\* with the crowding distances the call has set
calculate_crowding_distance(population, front) ==
    IF Len(front) <= 2
    THEN [front |-> front,
          population |-> [j \in 1..Len(population) |->
                            IF j \in Range(front)
                            THEN [population[j] EXCEPT !.crowding_distance = Infinity]
                            ELSE population[j]]]
    ELSE CrowdObjectives(
             [j \in 1..Len(population) |->
                 IF j \in Range(front)
                 THEN [population[j] EXCEPT !.crowding_distance = Ratio(0, 1)]
                 ELSE population[j]],
             front, 1)

\* for front in fronts: self.calculate_crowding_distance(front)
RECURSIVE CrowdFronts(_, _, _)
CrowdFronts(population, fronts, f) ==
    IF f > Len(fronts) THEN [fronts |-> fronts, population |-> population]
    ELSE LET r == calculate_crowding_distance(population, fronts[f])
         IN  CrowdFronts(r.population, [fronts EXCEPT ![f] = r.front], f + 1)

(***************************************************************************)
(* KeyboardOptimizer.optimize: the selection of the next generation        *)
(***************************************************************************)
\* the while loop; raised is the IndexError of fronts[front_index]
RECURSIVE TakeWholeFronts(_, _, _, _)
TakeWholeFronts(fronts, size, new_population, front_index) ==
    IF front_index + 1 > Len(fronts)
    THEN [raised |-> TRUE, new_population |-> new_population,
          front_index |-> front_index, fronts |-> fronts]
    ELSE IF Len(new_population) + Len(fronts[front_index + 1]) <= size
    THEN TakeWholeFronts(fronts, size,
                         new_population \o fronts[front_index + 1],
                         front_index + 1)
    ELSE [raised |-> FALSE, new_population |-> new_population,
          front_index |-> front_index, fronts |-> fronts]

\* the same selection with the slice of the remaining front left out
SelectWholeRemainingFront(combined, fronts, size) ==
    LET w == TakeWholeFronts(fronts, size, << >>, 0)
    IN  IF w.raised THEN [w EXCEPT !.fronts = fronts]
        ELSE IF Len(w.new_population) < size
        THEN LET key == [j \in 1..Len(combined) |-> combined[j].crowding_distance]
                 remaining_front == StableSort(fronts[w.front_index + 1], key, TRUE)
             IN  [w EXCEPT !.new_population = @ \o remaining_front,
                           !.fronts = [fronts EXCEPT ![w.front_index + 1] = remaining_front]]
        ELSE [w EXCEPT !.fronts = fronts]

\* the same selection with the remaining front taken by weighted_score, lowest
\* first
SelectByWeightedScore(combined, fronts, size) ==
    LET w == TakeWholeFronts(fronts, size, << >>, 0)
    IN  IF w.raised THEN [w EXCEPT !.fronts = fronts]
        ELSE IF Len(w.new_population) < size
        THEN LET key == [j \in 1..Len(combined) |-> combined[j].weighted_score]
                 remaining_front == StableSort(fronts[w.front_index + 1], key, FALSE)
             IN  [w EXCEPT !.new_population =
                     @ \o SubSeq(remaining_front, 1, size - Len(w.new_population)),
                           !.fronts = [fronts EXCEPT ![w.front_index + 1] = remaining_front]]
        ELSE [w EXCEPT !.fronts = fronts]

\* the same selection with the remaining front sorted by crowding distance,
\* lowest first
SelectLeastCrowded(combined, fronts, size) ==
    LET w == TakeWholeFronts(fronts, size, << >>, 0)
    IN  IF w.raised THEN [w EXCEPT !.fronts = fronts]
        ELSE IF Len(w.new_population) < size
        THEN LET key == [j \in 1..Len(combined) |-> combined[j].crowding_distance]
                 remaining_front == StableSort(fronts[w.front_index + 1], key, FALSE)
             IN  [w EXCEPT !.new_population =
                     @ \o SubSeq(remaining_front, 1, size - Len(w.new_population)),
                           !.fronts = [fronts EXCEPT ![w.front_index + 1] = remaining_front]]
        ELSE [w EXCEPT !.fronts = fronts]

\* the same selection with the fronts taken from the last one back
SelectFromLastFront(combined, fronts, size) ==
    LET reversed == [f \in 1..Len(fronts) |-> fronts[Len(fronts) + 1 - f]]
        w == TakeWholeFronts(reversed, size, << >>, 0)
    IN  IF w.raised THEN [w EXCEPT !.fronts = reversed]
        ELSE IF Len(w.new_population) < size
        THEN LET key == [j \in 1..Len(combined) |-> combined[j].crowding_distance]
                 remaining_front == StableSort(reversed[w.front_index + 1], key, TRUE)
             IN  [w EXCEPT !.new_population =
                     @ \o SubSeq(remaining_front, 1, size - Len(w.new_population)),
                           !.fronts = [reversed EXCEPT ![w.front_index + 1] = remaining_front]]
        ELSE [w EXCEPT !.fronts = reversed]

\* the places of the combined population that make the next generation, and
\* the fronts as the selection leaves them (the remaining front is sorted in
\* place)
SelectNextGeneration(combined, fronts, size) ==
    LET w == TakeWholeFronts(fronts, size, << >>, 0)
    IN  IF w.raised THEN [w EXCEPT !.fronts = fronts]
        ELSE IF Len(w.new_population) < size
        THEN LET key == [j \in 1..Len(combined) |-> combined[j].crowding_distance]
                 remaining_front == StableSort(fronts[w.front_index + 1], key, TRUE)
             IN  [w EXCEPT !.new_population =
                     @ \o SubSeq(remaining_front, 1, size - Len(w.new_population)),
                           !.fronts = [fronts EXCEPT ![w.front_index + 1] = remaining_front]]
        ELSE [w EXCEPT !.fronts = fronts]

\* one generation from the combined population on: sort, crowding, selection
Generation(combined_population, size) ==
    LET r == fast_non_dominated_sort(combined_population)
        c == CrowdFronts(r.population, r.fronts, 1)
        s == SelectNextGeneration(c.population, c.fronts, size)
    IN  [raised |-> s.raised,
         population |-> [i \in 1..Len(s.new_population) |->
                            c.population[s.new_population[i]]]]

\* the same end with the first front sorted by score, highest first
FinalFrontDescending(population) ==
    LET final == fast_non_dominated_sort(population)
        key   == [j \in 1..Len(population) |-> population[j].weighted_score]
        pareto_front == IF Len(final.fronts) > 0 THEN final.fronts[1] ELSE << >>
        sorted == StableSort(pareto_front, key, TRUE)
    IN  [population |-> final.population,
         pareto_front |-> [i \in 1..Len(sorted) |-> final.population[sorted[i]]]]

\* the end of optimize: the first front of the last population, by score
FinalFront(population) ==
    LET final == fast_non_dominated_sort(population)
        key   == [j \in 1..Len(population) |-> population[j].weighted_score]
        pareto_front == IF Len(final.fronts) > 0 THEN final.fronts[1] ELSE << >>
        sorted == StableSort(pareto_front, key, FALSE)
    IN  [population |-> final.population,
         pareto_front |-> [i \in 1..Len(sorted) |-> final.population[sorted[i]]]]

(***************************************************************************)
(* main: the layout_grid written for a layout, and                         *)
(* DetailedLayoutAnalyzer.load_layout_from_grid, which reads it back.  A   *)
(* grid is indexed from 0, as the lists are; an empty cell holds "".       *)
(***************************************************************************)
\* layout_grid[pos['row']][pos['col']] = char for every character but the
\* space on rows 0 to 2; a cell two characters claim keeps one of them
LayoutGridOf(positions) ==
    [row \in 0..2 |->
        [col \in 0..11 |->
            LET here == {char \in DOMAIN positions :
                            /\ char # " "
                            /\ positions[char].row < 3
                            /\ positions[char].row = row
                            /\ positions[char].col = col}
            IN  IF here = {} THEN "" ELSE CHOOSE char \in here : TRUE]]

\* the dict load_layout_from_grid starts from
GridFixedPositions ==
    ("n" :> Position(1, 1, 1)) @@ ("r" :> Position(1, 2, 2)) @@
    ("s" :> Position(1, 3, 3)) @@ ("t" :> Position(1, 4, 4)) @@
    ("h" :> Position(1, 7, 7)) @@ ("e" :> Position(1, 8, 8)) @@
    ("a" :> Position(1, 9, 9)) @@ ("i" :> Position(1, 10, 10)) @@
    ("u" :> Position(0, 8, 8)) @@ ("o" :> Position(0, 9, 9)) @@
    ("y" :> Position(0, 10, 10)) @@ ("\\" :> Position(2, 0, 1)) @@
    ("/" :> Position(2, 11, 10)) @@ ("q" :> Position(0, 1, 1)) @@
    ("ä" :> Position(1, 11, 10)) @@ ("ö" :> Position(0, 11, 10)) @@
    (" " :> Position(3, 6, 6))

finger_map ==
    (0 :> 1) @@ (1 :> 1) @@ (2 :> 2) @@ (3 :> 3) @@ (4 :> 4) @@ (5 :> 4) @@
    (6 :> 7) @@ (7 :> 7) @@ (8 :> 8) @@ (9 :> 9) @@ (10 :> 10) @@ (11 :> 10)

\* a character of the grid that the dict does not hold yet is added at the
\* first cell, row by row, that holds it
load_layout_from_grid(grid) ==
    LET Cells(char) == {cell \in (0..2) \X (0..11) : grid[cell[1]][cell[2]] = char}
        First(char) == CHOOSE cell \in Cells(char) :
                           \A other \in Cells(char) :
                               12 * cell[1] + cell[2] <= 12 * other[1] + other[2]
        added == {grid[cell[1]][cell[2]] : cell \in (0..2) \X (0..11)}
                     \ ({""} \cup DOMAIN GridFixedPositions)
    IN  [char \in DOMAIN GridFixedPositions \cup added |->
            IF char \in DOMAIN GridFixedPositions
            THEN GridFixedPositions[char]
            ELSE Position(First(char)[1], First(char)[2],
                          finger_map[First(char)[2]])]

(***************************************************************************)
(* The state of a run of KeyboardOptimizer() followed by optimize().       *)
(***************************************************************************)
VARIABLES
    english_words, finnish_words,      \* the two word lists loaded
    english_bigrams, english_total,    \* self.english_bigrams, self.english_total
    finnish_bigrams, finnish_total,    \* self.finnish_bigrams, self.finnish_total
    tables,                            \* self.base_layout, self.moveable_positions
    population_size, generations,      \* the arguments of optimize
    population,                        \* the current population
    offspring,                         \* the offspring of this generation
    combined_population,               \* population + offspring
    fronts,                            \* the fronts of combined_population
    generation,                        \* generations completed
    cursor,                            \* place of the mutation loop in population
    layout_grid,                       \* the layout_grid of a result saved
    loaded_layout,                     \* what load_layout_from_grid returned
    pc,                                \* where optimize is
    error,                             \* the exception that ended the run
    pareto_front                       \* what optimize returned

vars == << english_words, finnish_words, english_bigrams, english_total,
           finnish_bigrams, finnish_total, tables, population_size, generations,
           population, offspring, combined_population, fronts, generation,
           cursor, layout_grid, loaded_layout, pc, error, pareto_front >>

models == << english_words, finnish_words, english_bigrams, english_total,
             finnish_bigrams, finnish_total >>

arguments == << population_size, generations >>

exported == << layout_grid, loaded_layout >>

Evaluated(layout_positions) ==
    evaluate_layout(layout_positions, english_bigrams, english_total,
                    finnish_bigrams, finnish_total)

\* the arguments a caller passes to optimize: any int, negative ones too
PopulationSizes == -1..MaxPopulation

GenerationCounts == -1..MaxGenerations

Init ==
    /\ english_words \in EnglishCorpora
    /\ finnish_words \in FinnishCorpora
    /\ LET english == calculate_bigrams_from_words(english_words)
           finnish == calculate_bigrams_from_words(finnish_words)
       IN  /\ english_bigrams = english.bigrams
           /\ english_total = english.total_length
           /\ finnish_bigrams = finnish.bigrams
           /\ finnish_total = finnish.total_length
    /\ tables = [base_layout |-> base_layout,
                 moveable_positions |-> moveable_positions]
    /\ population_size \in PopulationSizes
    /\ generations \in GenerationCounts
    /\ population = << >>
    /\ offspring = << >>
    /\ combined_population = << >>
    /\ fronts = << >>
    /\ generation = 0
    /\ cursor = 0
    /\ layout_grid = << >>
    /\ loaded_layout = << >>
    /\ pc = "Initializing"
    /\ error = "none"
    /\ pareto_front = << >>

\* one pass of the initialisation loop
CreateGenome(p, q) ==
    /\ pc = "Initializing"
    /\ Len(population) < population_size
    /\ english_total # 0 /\ finnish_total # 0
    /\ population' = Append(population, Evaluated(create_random_layout(p, q)))
    /\ LET o == CreateRandomLayoutObjects(tables, p, q)
       IN  tables' = [base_layout |-> o.base_layout,
                      moveable_positions |-> o.moveable_positions]
    /\ UNCHANGED << models, exported, arguments, offspring, combined_population, fronts,
                    generation, cursor, pc, error, pareto_front >>

\* calculate_metrics divides by a total_length of 0
CreateGenomeRaises ==
    /\ pc = "Initializing"
    /\ Len(population) < population_size
    /\ english_total = 0 \/ finnish_total = 0
    /\ pc' = "Failed"
    /\ error' = "ZeroDivisionError"
    /\ UNCHANGED << models, exported, tables, arguments, population, offspring,
                    combined_population, fronts, generation, cursor,
                    pareto_front >>

\* the head of the loop over the generations
AtLoopHead ==
    \/ pc = "Initializing" /\ Len(population) >= population_size
    \/ pc = "Selected"

BeginGeneration ==
    /\ AtLoopHead
    /\ generation < generations
    /\ offspring' = << >>
    /\ combined_population' = << >>
    /\ fronts' = << >>
    /\ cursor' = 1
    /\ pc' = "Mutating"
    /\ UNCHANGED << models, exported, tables, arguments, population, generation, error,
                    pareto_front >>

\* random.random() < 0.8: the layout at the cursor gets a child
Mutate(idx1, idx2) ==
    /\ pc = "Mutating"
    /\ cursor <= Len(population)
    /\ idx1 # idx2
    /\ offspring' = Append(offspring,
                           mutate_layout(population[cursor], idx1, idx2,
                                         english_bigrams, english_total,
                                         finnish_bigrams, finnish_total))
    /\ population' = [population EXCEPT ![cursor].positions =
                         MutateLayoutObjects(population[cursor], idx1, idx2).positions]
    /\ cursor' = cursor + 1
    /\ UNCHANGED << models, exported, tables, arguments, combined_population, fronts,
                    generation, pc, error, pareto_front >>

\* random.random() >= 0.8: it gets none
SkipMutation ==
    /\ pc = "Mutating"
    /\ cursor <= Len(population)
    /\ cursor' = cursor + 1
    /\ UNCHANGED << models, exported, tables, arguments, population, offspring,
                    combined_population, fronts, generation, pc, error,
                    pareto_front >>

\* combined_population = population + offspring, and its sort into fronts
Rank ==
    /\ pc = "Mutating"
    /\ cursor > Len(population)
    /\ LET r == fast_non_dominated_sort(population \o offspring)
       IN  /\ combined_population' = r.population
           /\ fronts' = r.fronts
    /\ pc' = "Crowding"
    /\ UNCHANGED << models, exported, tables, arguments, population, offspring, generation,
                    cursor, error, pareto_front >>

\* the crowding distance of every front
Crowd ==
    /\ pc = "Crowding"
    /\ LET r == CrowdFronts(combined_population, fronts, 1)
       IN  /\ combined_population' = r.population
           /\ fronts' = r.fronts
    /\ pc' = "Selecting"
    /\ UNCHANGED << models, exported, tables, arguments, population, offspring, generation,
                    cursor, error, pareto_front >>

\* the next generation replaces the population
Select ==
    /\ pc = "Selecting"
    /\ LET s == SelectNextGeneration(combined_population, fronts, population_size)
       IN  /\ ~ s.raised
           /\ population' = [i \in 1..Len(s.new_population) |->
                                combined_population[s.new_population[i]]]
           /\ fronts' = s.fronts
    /\ generation' = generation + 1
    /\ pc' = "Selected"
    /\ UNCHANGED << models, exported, tables, arguments, offspring, combined_population,
                    cursor, error, pareto_front >>

\* fronts[front_index] is read past the last front
SelectRaises ==
    /\ pc = "Selecting"
    /\ SelectNextGeneration(combined_population, fronts, population_size).raised
    /\ pc' = "Failed"
    /\ error' = "IndexError"
    /\ UNCHANGED << models, exported, tables, arguments, population, offspring,
                    combined_population, fronts, generation, cursor,
                    pareto_front >>

\* the generations are done: optimize returns the sorted first front
Finish ==
    /\ AtLoopHead
    /\ generation >= generations
    /\ LET r == FinalFront(population)
       IN  /\ population' = r.population
           /\ pareto_front' = r.pareto_front
    /\ pc' = "Terminated"
    /\ UNCHANGED << models, exported, tables, arguments, offspring, combined_population, fronts,
                    generation, cursor, error >>

Next ==
    \/ \E p, q \in DrawnShuffles : CreateGenome(p, q)
    \/ CreateGenomeRaises
    \/ BeginGeneration
    \/ \E idx1, idx2 \in DrawnIdx : Mutate(idx1, idx2)
    \/ SkipMutation
    \/ Rank
    \/ Crowd
    \/ Select
    \/ SelectRaises
    \/ Finish

Spec == Init /\ [][Next]_vars

(***************************************************************************)
(* evaluate_layout and mutate_layout called on their own, as the public    *)
(* methods of KeyboardOptimizer they are: the layout passed is any dict of *)
(* characters to positions, not only one create_random_layout has built.   *)
(***************************************************************************)
\* word_list.json for these calls: left-hand and right-hand bigrams, and the
\* character "1" that no layout holds
EvalEnglishCorpora ==
    { << Word(<<"a", "b">>, 1) >>,
      << Word(<<"q", "x", "k", "z">>, 1), Word(<<"u", "b", "1">>, 2) >>,
      << Word(<<"b", "a", "d">>, 2), Word(<<"h", "u", "b", "b", "u", "b">>, 1) >>,
      << Word(<<"a", "b">>, 2), Word(<<"a", "b", "a", "b">>, 3) >> }

EvalFinnishCorpora ==
    { << Word(<<"u", "b">>, 1) >>,
      << Word(<<"ä", "1", "d">>, 1), Word(<<"v", "t", "k", "s">>, 3) >> }

\* the layouts passed: the anchors alone, the anchors and one moveable letter
\* on any moveable slot, and the layouts create_random_layout builds
ParentLayouts ==
    {base_layout}
    \cup {(c :> moveable_positions[i]) @@ base_layout :
              c \in {"b", "q"}, i \in DOMAIN moveable_positions}
    \cup {create_random_layout(p, q) : p, q \in DrawnShuffles}

EvalInit ==
    /\ english_words \in EvalEnglishCorpora
    /\ finnish_words \in EvalFinnishCorpora
    /\ LET english == calculate_bigrams_from_words(english_words)
           finnish == calculate_bigrams_from_words(finnish_words)
       IN  /\ english_bigrams = english.bigrams
           /\ english_total = english.total_length
           /\ finnish_bigrams = finnish.bigrams
           /\ finnish_total = finnish.total_length
           /\ \E layout_positions \in ParentLayouts :
                  population = << evaluate_layout(layout_positions,
                                                  english.bigrams, english.total_length,
                                                  finnish.bigrams, finnish.total_length) >>
    /\ tables = [base_layout |-> base_layout,
                 moveable_positions |-> moveable_positions]
    /\ population_size = 1
    /\ generations = 0
    /\ offspring = << >>
    /\ combined_population = << >>
    /\ fronts = << >>
    /\ generation = 0
    /\ cursor = 1
    /\ layout_grid = << >>
    /\ loaded_layout = << >>
    /\ pc = "Evaluated"
    /\ error = "none"
    /\ pareto_front = << >>

\* mutate_layout(layout) on the evaluated layout
MutateOnce(idx1, idx2) ==
    /\ pc = "Evaluated"
    /\ idx1 # idx2
    /\ offspring' = << mutate_layout(population[1], idx1, idx2,
                                     english_bigrams, english_total,
                                     finnish_bigrams, finnish_total) >>
    /\ population' = [population EXCEPT ![1].positions =
                         MutateLayoutObjects(population[1], idx1, idx2).positions]
    /\ pc' = "Mutated"
    /\ UNCHANGED << models, exported, tables, arguments, combined_population, fronts,
                    generation, cursor, error, pareto_front >>

\* main writes the layout_grid of the layout
WriteGrid ==
    /\ pc = "Mutated"
    /\ layout_grid' = LayoutGridOf(offspring[1].positions)
    /\ pc' = "Saved"
    /\ UNCHANGED << models, tables, arguments, population, offspring,
                    combined_population, fronts, generation, cursor,
                    loaded_layout, error, pareto_front >>

\* layout_positions = analyzer.load_layout_from_grid(result['layout_grid'])
LoadGrid ==
    /\ pc = "Saved"
    /\ loaded_layout' = load_layout_from_grid(layout_grid)
    /\ pc' = "Loaded"
    /\ UNCHANGED << models, tables, arguments, population, offspring,
                    combined_population, fronts, generation, cursor,
                    layout_grid, error, pareto_front >>

\* the places random.sample draws here: those of b, d and ",", and that of q
EvalDrawnIdx == DrawnIdx \cup {1}

EvalNext ==
    \/ \E idx1, idx2 \in EvalDrawnIdx : MutateOnce(idx1, idx2)
    \/ WriteGrid
    \/ LoadGrid

EvalSpec == EvalInit /\ [][EvalNext]_vars

(***************************************************************************)
(* The claims.                                                             *)
(***************************************************************************)
Genomes ==
    Range(population) \cup Range(offspring) \cup Range(combined_population)
        \cup Range(pareto_front)

FullCharacterSet == Anchors \cup Range(moveable_letters)

FullSlotSet == Range(base_layout) \cup Range(moveable_positions)

\* every character has one slot, every slot is taken, and there are as many
\* slots taken as characters: no two characters share one
IsBijection(layout) ==
    /\ DOMAIN layout = FullCharacterSet
    /\ Range(layout) = FullSlotSet
    /\ Cardinality(Range(layout)) = Cardinality(DOMAIN layout)

\* the places of offspring whose layout no parent of this generation has
NewChildren ==
    {j \in DOMAIN offspring :
        \A k \in 1..population_size :
            k \in DOMAIN combined_population =>
                combined_population[k].positions # offspring[j].positions}

\* C1 (permutation validity): in every state of a run, the layout of every
\* genome (in the population, the offspring, the combined population and the
\* result) maps the full character set one-to-one onto the full slot set.
PermutationValidity ==
    \A g \in Genomes : IsBijection(g.positions)

\* a child that no parent equals has survived the truncation
PermutationValidityWitness ==
    /\ pc = "Selected"
    /\ \E j \in NewChildren : \E i \in DOMAIN population :
           population[i].positions = offspring[j].positions

\* C2 (anchor invariance): in every state of a run, every genome has every
\* anchor (the eleven fixed letters and the space) at its position in
\* base_layout.
AnchorInvariance ==
    \A g \in Genomes : \A c \in Anchors :
        c \in DOMAIN g.positions /\ g.positions[c] = base_layout[c]

\* a later generation has mutated a survivor of the truncation
AnchorInvarianceWitness ==
    /\ pc = "Mutating"
    /\ generation >= 1
    /\ Len(offspring) >= 1
    /\ offspring[Len(offspring)].positions # population[cursor - 1].positions

\* the fronts of the last sort of the combined population, as sets of places
FrontSets == [f \in DOMAIN fronts |-> Range(fronts[f])]

\* C3 (non-domination within a front): no genome of a front that
\* fast_non_dominated_sort returned dominates a genome of the same front;
\* this holds of the fronts of every combined population and of the front
\* optimize returns.
NonDominationWithinFront ==
    /\ \A f \in DOMAIN fronts : \A a, b \in FrontSets[f] :
           ~ dominates(combined_population[a], combined_population[b])
    /\ \A a, b \in DOMAIN pareto_front :
           ~ dominates(pareto_front[a], pareto_front[b])

\* a sort has made two fronts, one of them with two genomes that trade off
NonDominationWitness ==
    /\ pc = "Crowding"
    /\ Len(fronts) >= 2
    /\ \E f \in DOMAIN fronts : \E a, b \in FrontSets[f] :
           Objectives(combined_population[a]) # Objectives(combined_population[b])

\* C4 (front partition completeness): the fronts of one sort partition the
\* combined population: every place is in exactly one front, once, and the
\* front sizes sum to the size of the population sorted.
RECURSIVE SumOfSizes(_, _)
SumOfSizes(fs, f) == IF f > Len(fs) THEN 0 ELSE Len(fs[f]) + SumOfSizes(fs, f + 1)

FrontPartition ==
    pc \in {"Crowding", "Selecting", "Selected"} =>
        /\ \A j \in DOMAIN combined_population :
               Cardinality({f \in DOMAIN fronts : j \in FrontSets[f]}) = 1
        /\ \A f \in DOMAIN fronts :
               /\ FrontSets[f] \subseteq DOMAIN combined_population
               /\ Cardinality(FrontSets[f]) = Len(fronts[f])
        /\ SumOfSizes(fronts, 1) = Len(combined_population)
        /\ Len(combined_population) = Len(population) + Len(offspring)

\* a sort of a population with two genomes of equal objective vectors and
\* with a dominated genome
FrontPartitionWitness ==
    /\ pc = "Crowding"
    /\ Len(fronts) >= 2
    /\ \E a, b \in DOMAIN combined_population :
           /\ a # b
           /\ Objectives(combined_population[a]) = Objectives(combined_population[b])

\* C5 (population size after truncation): once a generation has completed,
\* the population holds exactly population_size genomes.
PopulationSizeAfterTruncation ==
    generation >= 1 => Len(population) = population_size

\* fewer children than parents, and a front of which only a part was taken
PopulationSizeWitness ==
    /\ pc = "Selected"
    /\ Len(offspring) >= 1
    /\ Len(offspring) < population_size
    /\ LET s == SelectNextGeneration(combined_population, fronts, population_size)
       IN  \E a, b \in FrontSets[s.front_index + 1] :
               a \in Range(s.new_population) /\ b \notin Range(s.new_population)

\* C6 (the generation budget runs to completion): with population_size >= 1
\* and two non-empty corpora, no generation of optimize aborts with an error.
RunsToCompletion ==
    (population_size >= 1 /\ english_words # << >> /\ finnish_words # << >>)
        => pc # "Failed"

\* the value of objective k of the genome at place j of the combined population
ObjectiveAt(j, k) == Objectives(combined_population[j])[k]

HoldsMinimum(f, j, k) ==
    \A a \in FrontSets[f] : RatLE(ObjectiveAt(j, k), ObjectiveAt(a, k))

HoldsMaximum(f, j, k) ==
    \A a \in FrontSets[f] : RatLE(ObjectiveAt(a, k), ObjectiveAt(j, k))

Crowded == pc \in {"Selecting", "Selected"}

\* C7 as claimed (crowding boundary property, ties included): in a front of
\* more than two genomes, every genome that holds the minimum or the maximum
\* of an objective has an infinite crowding distance.
CrowdingBoundaryOfEveryHolder ==
    Crowded =>
        \A f \in DOMAIN fronts : Len(fronts[f]) > 2 =>
            \A k \in 1..8 : \A j \in FrontSets[f] :
                (HoldsMinimum(f, j, k) \/ HoldsMaximum(f, j, k))
                    => IsInfinite(combined_population[j].crowding_distance)

\* C7 as amended: in a front of more than two genomes, for every objective,
\* at least one genome that holds the minimum and at least one that holds the
\* maximum has an infinite crowding distance (so a genome that holds it alone
\* has); further genomes that tie for it may keep a finite distance.
CrowdingBoundarySomeHolder ==
    Crowded =>
        \A f \in DOMAIN fronts : Len(fronts[f]) > 2 =>
            \A k \in 1..8 :
                /\ \E j \in FrontSets[f] :
                       /\ HoldsMinimum(f, j, k)
                       /\ IsInfinite(combined_population[j].crowding_distance)
                /\ \E j \in FrontSets[f] :
                       /\ HoldsMaximum(f, j, k)
                       /\ IsInfinite(combined_population[j].crowding_distance)

\* a front of more than two genomes, an objective that ranges over it, and a
\* genome of the front that is left with a finite distance
CrowdingBoundaryWitness ==
    /\ pc = "Selecting"
    /\ \E f \in DOMAIN fronts :
           /\ Len(fronts[f]) > 2
           /\ \E k \in 1..8 : \E a, b \in FrontSets[f] :
                  RatLT(ObjectiveAt(a, k), ObjectiveAt(b, k))
           /\ \E j \in FrontSets[f] :
                  ~ IsInfinite(combined_population[j].crowding_distance)

\* the characters of the bigrams of nonzero weight of either language model
CharsOf(bigrams) ==
    {c \in FullCharacterSet :
        \E bigram \in DOMAIN bigrams : bigrams[bigram] # 0 /\ c \in Range(bigram)}

UsedChars == CharsOf(english_bigrams) \cup CharsOf(finnish_bigrams)

\* the characters that child has elsewhere than parent
Moved(parent, child) ==
    {c \in DOMAIN parent.positions :
        c \notin DOMAIN child.positions
            \/ child.positions[c] # parent.positions[c]}

\* C8 (mutation closure): every step that mutates the genome at the cursor
\* yields a child whose layout is a bijection, and whose two cost vectors equal
\* the parent's when none of the swapped characters is in a bigram of nonzero
\* weight of either language model.
MutationClosure ==
    [][ Len(offspring') = Len(offspring) + 1 =>
            LET parent == population[cursor]
                child  == offspring'[Len(offspring')]
            IN  /\ IsBijection(child.positions)
                /\ (Moved(parent, child) \cap UsedChars = {}) =>
                       /\ child.english_metrics = parent.english_metrics
                       /\ child.finnish_metrics = parent.finnish_metrics ]_vars

\* a child that differs from its parent in two characters no bigram uses
MutationClosureWitness ==
    /\ pc = "Mutating"
    /\ cursor >= 2
    /\ Len(offspring) >= 1
    /\ LET parent == population[cursor - 1]
           child  == offspring[Len(offspring)]
       IN  /\ Cardinality(Moved(parent, child)) = 2
           /\ Moved(parent, child) \cap UsedChars = {}
           /\ child.english_metrics = parent.english_metrics
           /\ child.finnish_metrics = parent.finnish_metrics

\* the rule, for one layout and one bigram table
SameFingerRule(layout, bigrams) ==
    \A bigram \in DOMAIN bigrams :
        LET char1 == bigram[1]
            char2 == bigram[2]
            added == BigramContribution(layout, bigram, bigrams[bigram])
        IN  (char1 \in DOMAIN layout /\ char2 \in DOMAIN layout) =>
                /\ (char1 # char2 /\ layout[char1].finger = layout[char2].finger)
                       => added = [sfb |-> bigrams[bigram], scissors |-> 0,
                                   lat_str2 |-> 0, wide_scissors |-> 0]
                /\ char1 = char2
                       => added = [sfb |-> 0, scissors |-> 0,
                                   lat_str2 |-> 0, wide_scissors |-> 0]

AbCorpus == << [word |-> <<"a", "b">>, count |-> 1] >>

\* C9 (same-finger bigram rule): for every genome and both language models, a
\* bigram of two different mapped characters of the same finger adds its count
\* to the SFB counter and to no other, and a bigram of two identical
\* characters adds nothing; with the corpus {"ab": 1} and a and b on the same
\* finger the SFB counter is 1, total_length is 3, the SFB rate is 100/3 and
\* the three other rates are 0.
SameFingerBigramRule ==
    \A g \in Genomes :
        /\ SameFingerRule(g.positions, english_bigrams)
        /\ SameFingerRule(g.positions, finnish_bigrams)
        /\ (english_words = AbCorpus
                /\ g.positions["a"].finger = g.positions["b"].finger) =>
               /\ english_total = 3
               /\ Counters(g.positions, english_bigrams).sfb = 1
               /\ g.english_metrics =
                      [sfb |-> [n |-> 100, d |-> 3],
                       scissors |-> [n |-> 0, d |-> 1],
                       lat_stretch |-> [n |-> 0, d |-> 1],
                       skip_bigrams |-> [n |-> 0, d |-> 1]]

\* the worked instance: the corpus {"ab": 1}, evaluated for a layout that has
\* a and b on the same finger
SameFingerBigramWitness ==
    /\ english_words = AbCorpus
    /\ \E g \in Range(population) :
           /\ g.positions["a"].finger = g.positions["b"].finger
           /\ g.english_metrics.sfb = [n |-> 100, d |-> 3]

\* the scores genome g holds are those an evaluation of its layout against
\* the given language models returns
ScoresAreCurrent(g, e_bigrams, e_total, f_bigrams, f_total) ==
    /\ g.english_metrics = calculate_metrics(g.positions, e_bigrams, e_total)
    /\ g.finnish_metrics = calculate_metrics(g.positions, f_bigrams, f_total)
    /\ g.weighted_score = WeightedScore(g.english_metrics, g.finnish_metrics)

NonDominated ==
    {i \in DOMAIN population :
        \A j \in DOMAIN population : ~ dominates(population[j], population[i])}

\* how many places of the sequence s hold g
Occurrences(s, g) == Cardinality({i \in DOMAIN s : s[i] = g})

\* C11 (final output): what optimize returns is exactly the non-dominated
\* genomes of the last population, each as often as the population holds it,
\* with rank 0, in ascending order of weighted_score.
FinalOutputIsSortedFirstFront ==
    pc = "Terminated" =>
        /\ Len(pareto_front) = Cardinality(NonDominated)
        /\ \A i \in DOMAIN population :
               Occurrences(pareto_front, population[i]) =
                   IF i \in NonDominated
                   THEN Cardinality({j \in NonDominated : population[j] = population[i]})
                   ELSE 0
        /\ \A g \in Range(pareto_front) : g \in Range(population) /\ g.rank = 0
        /\ \A k \in 1..(Len(pareto_front) - 1) :
               RatLE(pareto_front[k].weighted_score,
                     pareto_front[k + 1].weighted_score)

\* a returned front of two scores that the sort has put in another order than
\* the population holds them
FinalOutputWitness ==
    /\ pc = "Terminated"
    /\ generation >= 1
    /\ Len(pareto_front) >= 2
    /\ RatLT(pareto_front[1].weighted_score, pareto_front[2].weighted_score)
    /\ population[1] # pareto_front[1]

\* the sum of the four components of a cost vector
Sum4(m) == RatAdd(RatAdd(RatAdd(m.sfb, m.scissors), m.lat_stretch), m.skip_bigrams)

\* C12 (weighted score of all four components): the weighted_score of every
\* genome is 0.8 times the sum of the four English components plus 0.2 times
\* the sum of the four Finnish components.
WeightedScoreOfFourComponents ==
    \A g \in Genomes :
        g.weighted_score =
            RatAdd(RatScale(8, 10, Sum4(g.english_metrics)),
                   RatScale(2, 10, Sum4(g.finnish_metrics)))

\* genome g with another weighted_score: the score turned round (1000 minus
\* the score; a score is at most 300), so that the order of any two different
\* scores is the opposite one
Reweighted(g) ==
    [g EXCEPT !.weighted_score = RatSub([n |-> 1000, d |-> 1], g.weighted_score)]

ReweightedAll(s) == [i \in DOMAIN s |-> Reweighted(s[i])]

\* a genome without its weighted_score
Unscored(g) ==
    [positions |-> g.positions, english_metrics |-> g.english_metrics,
     finnish_metrics |-> g.finnish_metrics]

UnscoredAll(s) == [i \in DOMAIN s |-> Unscored(s[i])]

\* C13 (weighted_score never drives selection): a run that holds other
\* weighted_score values but the same layouts and takes the same draws makes
\* the same step everywhere: the child of a mutation has the same layout and
\* cost vectors, a generation selects the same layouts (or fails the same way),
\* and the final output holds the same genomes.
ScoreNeverDrivesSelection ==
    /\ (pc = "Mutating" /\ cursor <= Len(population)) =>
           \A idx1, idx2 \in DrawnIdx : idx1 # idx2 =>
               Unscored(mutate_layout(Reweighted(population[cursor]), idx1, idx2,
                                      english_bigrams, english_total,
                                      finnish_bigrams, finnish_total))
               = Unscored(mutate_layout(population[cursor], idx1, idx2,
                                        english_bigrams, english_total,
                                        finnish_bigrams, finnish_total))
    /\ pc = "Selected" =>
           LET other == Generation(ReweightedAll(combined_population), population_size)
           IN  /\ ~ other.raised
               /\ UnscoredAll(other.population) = UnscoredAll(population)
    /\ (pc = "Failed" /\ error = "IndexError") =>
           Generation(ReweightedAll(combined_population), population_size).raised
    /\ pc = "Terminated" =>
           Range(UnscoredAll(FinalFront(ReweightedAll(population)).pareto_front))
               = Range(UnscoredAll(pareto_front))

\* a generation has kept a genome and dropped another that the other scores
\* put first, while the scores of this run put the kept one first
ScoreNeverDrivesSelectionWitness ==
    /\ pc = "Selected"
    /\ \E a, b \in Range(combined_population) :
           /\ RatLT(a.weighted_score, b.weighted_score)
           /\ RatLT(Reweighted(b).weighted_score, Reweighted(a).weighted_score)
           /\ Unscored(a) \in Range(UnscoredAll(population))
           /\ Unscored(b) \notin Range(UnscoredAll(population))

\* no component of the objective vector of a is above that of b
NowhereWorse(a, b) ==
    \A k \in 1..8 :
        Objectives(a)[k].n * Objectives(b)[k].d <= Objectives(b)[k].n * Objectives(a)[k].d

\* the genomes of the state, each with the fields dominates reads
Evaluations == {Unscored(g) : g \in Genomes}

\* C14 (domination rule): for all genomes a and b, a dominates b exactly when
\* a is nowhere worse than b and the two objective vectors differ (so a is
\* strictly better somewhere); no genome dominates itself or a genome of the
\* same objective vector, and no two genomes dominate each other.
DominationRule ==
    \A a \in Evaluations :
        /\ ~ dominates(a, a)
        /\ \A b \in Evaluations :
               LET a_dominates_b == dominates(a, b)
               IN  /\ a_dominates_b <=>
                          (NowhereWorse(a, b) /\ Objectives(a) # Objectives(b))
                   /\ Objectives(a) = Objectives(b) => ~ a_dominates_b
                   /\ a_dominates_b => ~ dominates(b, a)

\* one population with a genome that dominates another, two genomes of
\* different layouts and the same objective vector, and two genomes of which
\* neither is nowhere worse than the other
DominationRuleWitness ==
    /\ \E a, b \in Range(combined_population) : dominates(a, b)
    /\ \E a, b \in Range(combined_population) :
           a.positions # b.positions /\ Objectives(a) = Objectives(b)
    /\ \E a, b \in Range(combined_population) :
           ~ NowhereWorse(a, b) /\ ~ NowhereWorse(b, a)

\* C15 (an empty corpus fails fast): when a language model has total_length
\* 0, the run is either not yet started or has aborted with an error of the
\* loader, with no genome created; it never aborts from inside
\* calculate_metrics, never enters the loop over the generations and never
\* returns.
EmptyCorpusFailsFast ==
    (english_total = 0 \/ finnish_total = 0) =>
        /\ pc \in {"Initializing", "Failed"}
        /\ population = << >>
        /\ pc = "Failed" => error \notin {"ZeroDivisionError", "IndexError"}

\* C16 (malformed run parameters are rejected): with a negative
\* population_size or a negative generations, optimize creates no genome,
\* takes no step of the loop over the generations and returns no result.
NegativeArgumentsAreRejected ==
    (population_size < 0 \/ generations < 0) =>
        /\ pc \in {"Initializing", "Failed"}
        /\ population = << >>
        /\ pc = "Failed" => error \notin {"ZeroDivisionError", "IndexError"}

\* C17 (mutation of a layout with fewer than two moveable characters): called
\* on a parent whose layout holds no or one moveable character, mutate_layout
\* raises nothing and returns a child with the layout and the two cost
\* vectors of the parent.
MutationWithoutSwapIsNoOp ==
    (pc = "Mutated" /\ Len(MoveableChars(population[1].positions)) < 2) =>
        /\ error = "none"
        /\ Len(offspring) = 1
        /\ offspring[1].positions = population[1].positions
        /\ offspring[1].english_metrics = population[1].english_metrics
        /\ offspring[1].finnish_metrics = population[1].finnish_metrics

\* the child of a parent with exactly one moveable character, which sits
\* where it makes a same-finger bigram of the corpus
MutationWithoutSwapWitness ==
    /\ pc = "Mutated"
    /\ Len(MoveableChars(population[1].positions)) = 1
    /\ RatLT([n |-> 0, d |-> 1], population[1].english_metrics.sfb)
    /\ offspring[1].positions = population[1].positions

\* the bigrams of a table with a character the layout does not hold
Unmapped(layout, bigrams) ==
    {b \in DOMAIN bigrams : \E k \in DOMAIN b : b[k] \notin DOMAIN layout}

\* the table with the weight of those bigrams set to 0
WithoutUnmapped(layout, bigrams) ==
    [b \in DOMAIN bigrams |-> IF b \in Unmapped(layout, bigrams) THEN 0 ELSE bigrams[b]]

\* the total_length of a word list: (len(word) + 1) * count for every word
RECURSIVE TotalLength(_, _)
TotalLength(words, k) ==
    IF k > Len(words) THEN 0
    ELSE (Len(words[k].word) + 1) * words[k].count + TotalLength(words, k + 1)

\* C18 (unmapped characters are ignored): a bigram with a character the
\* layout does not hold adds to none of the four counters and raises nothing;
\* total_length still counts the words it comes from; the cost vector equals
\* the one of the table with the weight of every such bigram set to 0 and the
\* same total_length.
UnmappedCharactersAreIgnored ==
    /\ error = "none"
    /\ english_total = TotalLength(english_words, 1)
    /\ finnish_total = TotalLength(finnish_words, 1)
    /\ \A g \in Genomes :
           /\ \A b \in Unmapped(g.positions, english_bigrams) :
                  BigramContribution(g.positions, b, english_bigrams[b]) = NoContribution
           /\ \A b \in Unmapped(g.positions, finnish_bigrams) :
                  BigramContribution(g.positions, b, finnish_bigrams[b]) = NoContribution
           /\ g.english_metrics =
                  calculate_metrics(g.positions,
                                    WithoutUnmapped(g.positions, english_bigrams),
                                    english_total)
           /\ g.finnish_metrics =
                  calculate_metrics(g.positions,
                                    WithoutUnmapped(g.positions, finnish_bigrams),
                                    finnish_total)

\* the child of a full layout, evaluated against a table that holds the
\* bigram "b1" next to a scissors bigram
UnmappedCharactersWitness ==
    /\ <<"b", "1">> \in DOMAIN english_bigrams
    /\ \E g \in Genomes :
           /\ DOMAIN g.positions = FullCharacterSet
           /\ <<"b", "1">> \in Unmapped(g.positions, english_bigrams)
           /\ RatLT([n |-> 0, d |-> 1], g.english_metrics.scissors)
    /\ pc = "Mutated"

\* C19 (skip-bigram equals scissors): in every cost vector the evaluation
\* returns, the skip_bigrams component equals the scissors component.
SkipBigramsEqualsScissors ==
    \A g \in Genomes :
        /\ g.english_metrics.skip_bigrams = g.english_metrics.scissors
        /\ g.finnish_metrics.skip_bigrams = g.finnish_metrics.scissors
        /\ calculate_metrics(g.positions, english_bigrams, english_total).skip_bigrams
               = Ratio(Counters(g.positions, english_bigrams).scissors * 100, english_total)
        /\ calculate_metrics(g.positions, finnish_bigrams, finnish_total).skip_bigrams
               = Ratio(Counters(g.positions, finnish_bigrams).scissors * 100, finnish_total)

\* a child whose English table has scissors and wide scissors of different
\* weight
SkipBigramsWitness ==
    /\ pc = "Mutated"
    /\ \E g \in Range(offspring) :
           /\ Counters(g.positions, english_bigrams).scissors > 0
           /\ Counters(g.positions, english_bigrams).wide_scissors
                  # Counters(g.positions, english_bigrams).scissors
           /\ Counters(g.positions, english_bigrams).wide_scissors > 0

\* both characters of the bigram are in the layout, on different fingers, on
\* the same hand, on the three main rows, two rows and one column apart
IsScissors(layout, b) ==
    /\ Len(b) = 2
    /\ b[1] \in DOMAIN layout /\ b[2] \in DOMAIN layout
    /\ layout[b[1]].finger # layout[b[2]].finger
    /\ \/ {layout[b[1]].col, layout[b[2]].col} \subseteq 0..5
       \/ {layout[b[1]].col, layout[b[2]].col} \subseteq 6..11
    /\ {layout[b[1]].row, layout[b[2]].row} \subseteq 0..2
    /\ layout[b[1]].row - layout[b[2]].row \in {-2, 2}
    /\ layout[b[1]].col - layout[b[2]].col \in {-1, 1}

\* two mapped characters two rows apart but not one column apart
IsWideScissors(layout, b) ==
    /\ b[1] \in DOMAIN layout /\ b[2] \in DOMAIN layout
    /\ layout[b[1]].row - layout[b[2]].row \in {-2, 2}
    /\ layout[b[1]].col - layout[b[2]].col \notin {-1, 1}

\* two mapped characters, one of them on the thumb row
OnThumbRow(layout, b) ==
    /\ b[1] \in DOMAIN layout /\ b[2] \in DOMAIN layout
    /\ layout[b[1]].row = 3 \/ layout[b[2]].row = 3

RECURSIVE SumOfCounts(_, _)
SumOfCounts(bigrams, todo) ==
    IF todo = {} THEN 0
    ELSE LET b == CHOOSE x \in todo : TRUE
         IN  bigrams[b] + SumOfCounts(bigrams, todo \ {b})

ScissorsRule(layout, bigrams, total_length, metrics) ==
    /\ \A b \in DOMAIN bigrams :
           LET c == BigramContribution(layout, b, bigrams[b])
           IN  /\ c.scissors = IF IsScissors(layout, b) THEN bigrams[b] ELSE 0
               /\ IsWideScissors(layout, b) => c.scissors = 0
               /\ OnThumbRow(layout, b) =>
                      (c.scissors = 0 /\ c.lat_str2 = 0 /\ c.wide_scissors = 0)
    /\ metrics.scissors =
           Ratio(100 * SumOfCounts(bigrams, {b \in DOMAIN bigrams : IsScissors(layout, b)}),
                 total_length)

\* C20 (scissors rule): a bigram adds its count to the scissors counter
\* exactly when its two characters are mapped, on different fingers, on the
\* same hand, on rows 0 to 2, two rows and one column apart; a bigram two rows
\* apart with another column distance adds nothing to the scissors counter,
\* and a bigram with a character on the thumb row adds nothing through the
\* same-hand rules.
ScissorsRuleHolds ==
    \A g \in Genomes :
        /\ ScissorsRule(g.positions, english_bigrams, english_total, g.english_metrics)
        /\ ScissorsRule(g.positions, finnish_bigrams, finnish_total, g.finnish_metrics)

\* a child layout with a left-hand scissors ("qx"), a right-hand scissors, a
\* wide scissors and a bigram with the space key, all of nonzero weight
ScissorsRuleWitness ==
    \E g \in Range(offspring) :
        /\ IsScissors(g.positions, <<"q", "x">>)
        /\ <<"q", "x">> \in DOMAIN english_bigrams
        /\ \E b \in DOMAIN english_bigrams :
               IsScissors(g.positions, b) /\ g.positions[b[1]].col >= 6
        /\ \E b \in DOMAIN english_bigrams : IsWideScissors(g.positions, b)
        /\ \E b \in DOMAIN english_bigrams : OnThumbRow(g.positions, b)

\* both characters mapped, on different fingers, on the same hand, on the
\* three main rows
SameHandMainRows(layout, b) ==
    /\ b[1] \in DOMAIN layout /\ b[2] \in DOMAIN layout
    /\ layout[b[1]].finger # layout[b[2]].finger
    /\ \/ {layout[b[1]].col, layout[b[2]].col} \subseteq 0..5
       \/ {layout[b[1]].col, layout[b[2]].col} \subseteq 6..11
    /\ {layout[b[1]].row, layout[b[2]].row} \subseteq 0..2

ColumnPair(layout, b) == {layout[b[1]].col, layout[b[2]].col}

\* twice the lateral stretch the rule gives a same-hand bigram of weight c
LateralStretchDoubled(layout, b, c) ==
    IF ColumnPair(layout, b) \in {{5, 3}, {6, 8}} THEN 2 * c
    ELSE IF ColumnPair(layout, b) \in {{5, 2}, {6, 9}} THEN c
    ELSE 0

LateralStretchRule(layout, bigrams) ==
    \A b \in DOMAIN bigrams :
        SameHandMainRows(layout, b) =>
            /\ BigramContribution(layout, b, bigrams[b]).lat_str2
                   = LateralStretchDoubled(layout, b, bigrams[b])
            /\ BigramContribution(layout, <<b[2], b[1]>>, bigrams[b]).lat_str2
                   = BigramContribution(layout, b, bigrams[b]).lat_str2

\* C21 (lateral-stretch rule): a same-hand, different-finger, main-row bigram
\* of weight c adds c to the lateral-stretch counter for the column pair
\* {5,3} or {6,8}, c/2 for {5,2} or {6,9} and 0 for any other pair, and its
\* reverse adds the same (the counter is kept doubled: 2c, c, 0).
LateralStretchRuleHolds ==
    \A g \in Genomes :
        /\ LateralStretchRule(g.positions, english_bigrams)
        /\ LateralStretchRule(g.positions, finnish_bigrams)

\* a child with a full stretch and a half stretch of odd weight on the left
\* hand, a full stretch on the right hand and a same-hand bigram without
\* stretch in its English table
LateralStretchWitness ==
    /\ pc = "Mutated"
    /\ \E g \in Range(offspring) :
           /\ \E b \in DOMAIN english_bigrams :
                  SameHandMainRows(g.positions, b) /\ ColumnPair(g.positions, b) = {5, 3}
           /\ \E b \in DOMAIN english_bigrams :
                  SameHandMainRows(g.positions, b) /\ ColumnPair(g.positions, b) = {5, 2}
                      /\ english_bigrams[b] % 2 = 1
           /\ \E b \in DOMAIN english_bigrams :
                  SameHandMainRows(g.positions, b) /\ ColumnPair(g.positions, b) = {6, 8}
           /\ \E b \in DOMAIN english_bigrams :
                  SameHandMainRows(g.positions, b)
                      /\ LateralStretchDoubled(g.positions, b, 1) = 0

\* the word with one space before and one after it
Padded(word) == <<" ">> \o word \o <<" ">>

\* at how many places of the padded word the two-character window is b
WindowsIn(word, b) ==
    Cardinality({i \in 1..(Len(Padded(word)) - 1) :
                    Padded(word)[i] = b[1] /\ Padded(word)[i + 1] = b[2]})

\* the sum over the words from the k-th on of count times the windows that are b
RECURSIVE WindowWeight(_, _, _)
WindowWeight(words, b, k) ==
    IF k > Len(words) THEN 0
    ELSE words[k].count * WindowsIn(words[k].word, b) + WindowWeight(words, b, k + 1)

\* the characters of the words, and the space
CorpusChars(words) ==
    {" "} \cup UNION {Range(words[k].word) : k \in DOMAIN words}

BigramModelOf(words, bigrams, total_length) ==
    /\ \A c1, c2 \in CorpusChars(words) :
           IF \E k \in DOMAIN words : WindowsIn(words[k].word, <<c1, c2>>) > 0
           THEN /\ <<c1, c2>> \in DOMAIN bigrams
                /\ bigrams[<<c1, c2>>] = WindowWeight(words, <<c1, c2>>, 1)
           ELSE <<c1, c2>> \notin DOMAIN bigrams
    /\ \A b \in DOMAIN bigrams : Len(b) = 2 /\ Range(b) \subseteq CorpusChars(words)
    /\ total_length = TotalLength(words, 1)

\* C22 (bigram model construction): the table calculate_bigrams_from_words
\* returns gives every ordered pair of characters that is a two-character
\* window of a padded word the sum, over the words and the places of the
\* window, of the word's count, and holds no other pair; total_length is the
\* sum over the words of (len(word) + 1) * count.
BigramModelConstruction ==
    /\ BigramModelOf(english_words, english_bigrams, english_total)
    /\ BigramModelOf(finnish_words, finnish_bigrams, finnish_total)

\* a corpus of two words with a bigram that comes once in the first word and
\* twice in the second, evaluated and mutated
BigramModelWitness ==
    /\ pc = "Mutated"
    /\ Len(english_words) = 2
    /\ \E b \in DOMAIN english_bigrams :
           /\ WindowsIn(english_words[1].word, b) = 1
           /\ WindowsIn(english_words[2].word, b) = 2
           /\ english_bigrams[b] = 8

\* the three counters a bigram adds to, of which at most one is not 0
AtMostOneCounter(c) ==
    Cardinality({k \in {"sfb", "scissors", "lat_str2"} : c[k] # 0}) <= 1

AccumulatorsBounded(layout, bigrams, total_length, metrics) ==
    /\ SumOfCounts(bigrams, DOMAIN bigrams) = total_length
    /\ \A b \in DOMAIN bigrams :
           AtMostOneCounter(BigramContribution(layout, b, bigrams[b]))
    /\ LET acc == Counters(layout, bigrams)
       IN  2 * acc.sfb + 2 * acc.scissors + acc.lat_str2 <= 2 * total_length
    /\ \A k \in {"sfb", "scissors", "lat_stretch", "skip_bigrams"} :
           /\ RatLE([n |-> 0, d |-> 1], metrics[k])
           /\ RatLE(metrics[k], [n |-> 100, d |-> 1])

\* C26 (the counters are exclusive and bounded): the weights of a table sum to
\* its total_length, every bigram adds to at most one of the same-finger,
\* scissors and lateral-stretch counters, the three counters together are at
\* most total_length, and every reported rate lies between 0 and 100.
AccumulatorsExclusiveAndBounded ==
    \A g \in Genomes :
        /\ AccumulatorsBounded(g.positions, english_bigrams, english_total,
                               g.english_metrics)
        /\ AccumulatorsBounded(g.positions, finnish_bigrams, finnish_total,
                               g.finnish_metrics)

\* a child with a same-finger bigram, a scissors and a bigram that adds to no
\* counter, beside a layout with a lateral stretch that is a wide scissors too
AccumulatorsWitness ==
    /\ pc = "Mutated"
    /\ \E g \in Range(offspring) :
           LET c(b) == BigramContribution(g.positions, b, english_bigrams[b])
           IN  /\ \E b \in DOMAIN english_bigrams : c(b).sfb > 0
               /\ \E b \in DOMAIN english_bigrams : c(b).scissors > 0
               /\ \E b \in DOMAIN english_bigrams : c(b) = NoContribution
    /\ \E g \in Genomes : \E b \in DOMAIN english_bigrams :
           LET c == BigramContribution(g.positions, b, english_bigrams[b])
           IN  c.lat_str2 > 0 /\ c.wide_scissors > 0

\* the front and the population as pass k of the loop over the objectives
\* finds them, in a call for a front of more than two genomes
RECURSIVE CrowdedBefore(_, _, _)
CrowdedBefore(combined, front, k) ==
    IF k = 1
    THEN [front |-> front,
          population |-> [j \in 1..Len(combined) |->
                            IF j \in Range(front)
                            THEN [combined[j] EXCEPT
                                      !.crowding_distance = Ratio(0, 1)]
                            ELSE combined[j]]]
    ELSE LET r == CrowdedBefore(combined, front, k - 1)
         IN  CrowdObjective(r.population, r.front, k - 1)

\* objective k has the same value all over the front
ZeroRange(combined, front, k) ==
    \A a, b \in Range(front) :
        Objectives(combined[a])[k] = Objectives(combined[b])[k]

IdenticalVectors(combined, front) ==
    \A k \in 1..8 : ZeroRange(combined, front, k)

\* C23 as claimed (zero-range objectives contribute nothing): in a front of
\* more than two genomes the pass of an objective whose maximum equals its
\* minimum changes no genome's crowding distance, and a front whose genomes
\* have identical objective vectors ends with every crowding distance 0.
ZeroRangeChangesNothing ==
    /\ pc = "Crowding" =>
           \A f \in DOMAIN fronts : Len(fronts[f]) > 2 =>
               \A k \in 1..8 : ZeroRange(combined_population, fronts[f], k) =>
                   LET before == CrowdedBefore(combined_population, fronts[f], k)
                       after  == CrowdObjective(before.population, before.front, k)
                   IN  \A j \in Range(fronts[f]) :
                           after.population[j].crowding_distance
                               = before.population[j].crowding_distance
    /\ pc = "Selecting" =>
           \A f \in DOMAIN fronts :
               (Len(fronts[f]) > 2 /\ IdenticalVectors(combined_population, fronts[f]))
                   => \A j \in Range(fronts[f]) :
                          combined_population[j].crowding_distance = Ratio(0, 1)

\* C23 as amended: in a front of more than two genomes the pass of an
\* objective whose maximum equals its minimum leaves the order of the front,
\* sets the crowding distance of the first and of the last genome of the
\* front to infinity and changes no other distance (nothing is divided); a
\* front whose genomes have identical objective vectors ends with its first
\* and its last genome at infinity and every other at 0.
ZeroRangeSetsOnlyBoundaries ==
    /\ pc = "Crowding" =>
           \A f \in DOMAIN fronts : Len(fronts[f]) > 2 =>
               \A k \in 1..8 : ZeroRange(combined_population, fronts[f], k) =>
                   LET before == CrowdedBefore(combined_population, fronts[f], k)
                       after  == CrowdObjective(before.population, before.front, k)
                       n      == Len(before.front)
                   IN  /\ after.front = before.front
                       /\ \A j \in Range(fronts[f]) :
                              after.population[j].crowding_distance
                                  = IF j \in {before.front[1], before.front[n]}
                                    THEN Infinity
                                    ELSE before.population[j].crowding_distance
    /\ pc = "Selecting" =>
           \A f \in DOMAIN fronts :
               (Len(fronts[f]) > 2 /\ IdenticalVectors(combined_population, fronts[f]))
                   => \A j \in Range(fronts[f]) :
                          combined_population[j].crowding_distance
                              = IF j \in {fronts[f][1], fronts[f][Len(fronts[f])]}
                                THEN Infinity ELSE Ratio(0, 1)

\* a crowded front of more than two genomes with identical objective vectors,
\* and a crowded front of more than two genomes of which one objective has no
\* range and another has
ZeroRangeWitness ==
    /\ pc = "Selecting"
    /\ \E f \in DOMAIN fronts :
           /\ Len(fronts[f]) > 2
           /\ IdenticalVectors(combined_population, fronts[f])
           /\ \E j \in Range(fronts[f]) :
                  combined_population[j].crowding_distance = Ratio(0, 1)

\* C27 (mutation does not touch the parent): a step of the mutation loop
\* leaves the population, that is every parent's positions, metrics and
\* weighted_score, as it was, and no step of the run, initialisation and
\* mutation included, changes self.base_layout or self.moveable_positions.
MutationLeavesParent ==
    [][ /\ tables' = tables
        /\ tables' = [base_layout |-> base_layout,
                      moveable_positions |-> moveable_positions]
        /\ pc = "Mutating" => population' = population ]_vars

\* in a second generation, after initialisations and mutations, a parent has
\* got a child whose positions differ from its own
MutationLeavesParentWitness ==
    /\ pc = "Mutating"
    /\ generation >= 1
    /\ cursor = 2
    /\ Len(offspring) = 1
    /\ offspring[1].positions # population[1].positions
    /\ offspring[1].weighted_score # population[1].weighted_score

\* the places of the fronts from front f on, one front after the other
RECURSIVE FlatFronts(_, _)
FlatFronts(frontlist, f) ==
    IF f > Len(frontlist) THEN << >>
    ELSE frontlist[f] \o FlatFronts(frontlist, f + 1)

\* how many places the fronts before front f hold
RECURSIVE PlacesBefore(_, _)
PlacesBefore(frontlist, f) ==
    IF f <= 1 THEN 0
    ELSE PlacesBefore(frontlist, f - 1) + Len(frontlist[f - 1])

\* the next population is the genomes at the first places of the fronts, in
\* the order of the fronts
KeptInFrontOrder ==
    /\ Len(population) <= Len(FlatFronts(fronts, 1))
    /\ population = [i \in 1..Len(population) |->
                        combined_population[FlatFronts(fronts, 1)[i]]]

\* C24 (truncation order): after the selection of a generation the next
\* population is the whole fronts 0..k-1 in ascending rank followed by
\* genomes of front k, the first front that does not fit; every genome taken
\* from front k has a crowding distance at least that of every genome of
\* front k left out, and no genome of a later front is taken.
TruncationOrder ==
    pc = "Selected" =>
        /\ KeptInFrontOrder
        /\ \A f \in DOMAIN fronts :
               LET before == PlacesBefore(fronts, f)
                   taken  == Len(population) - before
               IN  /\ taken < Len(fronts[f])
                          => before + Len(fronts[f]) > population_size
                   /\ (0 < taken /\ taken < Len(fronts[f])) =>
                          \A i \in 1..taken : \A o \in (taken + 1)..Len(fronts[f]) :
                              RatLE(combined_population[fronts[f][o]].crowding_distance,
                                    combined_population[fronts[f][i]].crowding_distance)

\* a selection that took part of a front, and left out a genome less crowded
\* than one it took
TruncationOrderWitness ==
    /\ pc = "Selected"
    /\ \E f \in DOMAIN fronts :
           LET taken == Len(population) - PlacesBefore(fronts, f)
           IN  /\ 0 < taken /\ taken < Len(fronts[f])
               /\ \E i \in 1..taken : \E o \in (taken + 1)..Len(fronts[f]) :
                      RatLT(combined_population[fronts[f][o]].crowding_distance,
                            combined_population[fronts[f][i]].crowding_distance)

\* C25 (front layering): of the fronts fast_non_dominated_sort returned for a
\* combined population, front 0 is exactly the genomes that no genome of the
\* population dominates, every genome of a front k > 0 is dominated by a
\* genome of front k-1, no front is empty, and the rank of every genome is
\* the index of its front.
FrontLayering ==
    pc = "Crowding" =>
        /\ combined_population # << >> =>
               /\ Len(fronts) >= 1
               /\ FrontSets[1] =
                      {i \in DOMAIN combined_population :
                          \A j \in DOMAIN combined_population :
                              ~ dominates(combined_population[j],
                                          combined_population[i])}
        /\ \A f \in DOMAIN fronts :
               /\ Len(fronts[f]) > 0
               /\ \A i \in FrontSets[f] :
                      /\ combined_population[i].rank = f - 1
                      /\ f > 1 => \E j \in FrontSets[f - 1] :
                                      dominates(combined_population[j],
                                                combined_population[i])

\* a combined population sorted into three fronts, or into two of which the
\* second holds two genomes
FrontLayeringWitness ==
    /\ pc = "Crowding"
    /\ \/ Len(fronts) >= 3
       \/ Len(fronts) = 2 /\ Len(fronts[2]) >= 2

\* C28 (truncation respects domination): after the selection of a
\* generation no genome of the combined population that was left out
\* dominates a genome of the next population.
TruncationRespectsDomination ==
    pc = "Selected" =>
        /\ KeptInFrontOrder
        /\ LET flat == FlatFronts(fronts, 1)
           IN  \A i \in 1..Len(population) :
                   \A o \in (Len(population) + 1)..Len(flat) :
                       ~ dominates(combined_population[flat[o]],
                                   combined_population[flat[i]])

\* a selection that left out a genome which a genome it kept dominates
TruncationRespectsDominationWitness ==
    /\ pc = "Selected"
    /\ LET flat == FlatFronts(fronts, 1)
       IN  \E i \in 1..Len(population) :
               \E o \in (Len(population) + 1)..Len(flat) :
                   dominates(combined_population[flat[i]],
                             combined_population[flat[o]])

ExportRoundTrip ==
    (pc = "Loaded" /\ IsBijection(offspring[1].positions)) =>
        /\ loaded_layout = offspring[1].positions
        /\ \A c1, c2 \in DOMAIN loaded_layout :
               loaded_layout[c1] = loaded_layout[c2] => c1 = c2

=============================================================================
